---- MODULE Spec2Model ----
(***************************************************************************)
(* Model of webp-conv's Converter (src/src/Converter.js, version 2.1.2):   *)
(* convertJobs -> #validateJob -> #processJob -> convert, the animated     *)
(* WebP -> GIF pipeline (anim_dump, waitForFrames, the frame loop, the GIF *)
(* encoder and its write stream) and the workspace cleanup with its        *)
(* deferred retries.                                                       *)
(*                                                                         *)
(* One call (convertJobs, or convert called directly) runs on Node's event *)
(* loop.  `pc` is the await point (or synchronous position) of that call.  *)
(* Timer and stream callbacks run only while the call is suspended at an   *)
(* await (AtAwait); the decoder's files land whenever the operating system *)
(* makes them visible.                                                     *)
(***************************************************************************)
EXTENDS Integers, Sequences, FiniteSets, TLC

\* ------------------------------------------------------------------ bounds
MaxJobs == 2
MaxFrames == 2
MaxPixels == 2

\* -------------------------------------------------------- program constants
maxCleanupAttempts == 5
\* The documented range of the quality setting ends at 100.
MaxQuality == 100
AlphaCutoff == 128

\* ------------------------------------------------------------------- paths
\* A path is [dir, name, ext]; path.extname is the ext field, path.dirname the
\* dir field, path.basename the pair <<name, ext>>.
NoPath == [dir |-> "", name |-> "", ext |-> ""]
AnimIn == [dir |-> "imgs", name |-> "anim", ext |-> ".webp"]
StaticIn == [dir |-> "imgs", name |-> "static", ext |-> ".webp"]
GoneIn == [dir |-> "imgs", name |-> "gone", ext |-> ".webp"]
DirIn == [dir |-> "imgs", name |-> "folder", ext |-> ".webp"]
OtherIn == [dir |-> "imgs", name |-> "anim", ext |-> ".gif"]
LockedIn == [dir |-> "imgs", name |-> "locked", ext |-> ".webp"]
\* A second animation with the base name of the first, in another directory.
AnimTwin == [dir |-> "more", name |-> "anim", ext |-> ".webp"]
OutGif == [dir |-> "out", name |-> "res", ext |-> ".gif"]
OutPng == [dir |-> "out", name |-> "res", ext |-> ".png"]
OutTxt == [dir |-> "out", name |-> "res", ext |-> ".txt"]

\* The input side of the file system, which no conversion changes.
ExistsSync(p) == p \in {AnimIn, AnimTwin, StaticIn, DirIn, OtherIn, LockedIn}
IsFile(p) == p \in {AnimIn, AnimTwin, StaticIn, OtherIn, LockedIn}
\* locked.webp is a regular file this process may not read.
Readable(p) == p \in {AnimIn, AnimTwin, StaticIn, OtherIn}
HasAnimMarker(p) == p \in {AnimIn, AnimTwin}
ExtName(p) == p.ext
BaseName(p) == <<p.name, p.ext>>

WsKeys == {BaseName(AnimIn), BaseName(StaticIn)}
\* The animation of anim.webp: 1..MaxFrames frames whose delays alternate, so
\* that neighbouring frames never share a delay.
DelayOf(i) == IF i % 2 = 1 THEN 100 ELSE 150
Metas == {[i \in 1..n |-> DelayOf(i)] : n \in 1..MaxFrames}
\* data.anim.loops of the animation: 0 (forever) for a single frame, else the
\* number of frames less one.
AnimLoops(rawFrames) == Len(rawFrames) - 1

\* --------------------------------------------------------------- settings
\* A settings (options) object is a function from the keys it carries to
\* their values.  A transparent colour '0xRRGGBB' is kept as the number it
\* writes; Undefined is the value of a key that is present but undefined.
Undefined == -1
DefaultQuality == 10
DefaultTransparent == 0
NoSettings == [k \in {} |-> 0]
HardDefaults == [quality |-> DefaultQuality, transparent |-> DefaultTransparent]

\* Object spread { ...a, ...b }: every own key of a and b, b's value winning.
Spread(a, b) ==
  [k \in (DOMAIN a) \cup (DOMAIN b) |-> IF k \in DOMAIN b THEN b[k] ELSE a[k]]

\* The argument of new Converter(...).
CtorArgs == {NoSettings, [quality |-> 60], [transparent |-> 16777215]}
\* The settings of a job, or the options of a direct convert call.
SettingsObjs ==
  {NoSettings, [quality |-> 80], [transparent |-> 65280],
   [quality |-> 80, transparent |-> 65280], [quality |-> Undefined],
   [speed |-> 1]}

\* ------------------------------------------------------------------- jobs
ObjectJobs ==
  {[isObject |-> TRUE, input |-> i, output |-> NoPath, settings |-> NoSettings] :
     i \in {NoPath, GoneIn, DirIn, OtherIn, LockedIn}}
  \cup {[isObject |-> TRUE, input |-> i, output |-> o, settings |-> NoSettings] :
          i \in {AnimIn, StaticIn}, o \in {NoPath, OutGif, OutPng, OutTxt}}
NonObjectJob ==
  [isObject |-> FALSE, input |-> NoPath, output |-> NoPath, settings |-> NoSettings]
Jobs == ObjectJobs \cup {NonObjectJob}
JobLists == UNION {[1..n -> Jobs] : n \in 0..MaxJobs}
\* The arguments of a direct call convert(input, output, options).
DirectCalls ==
  {[isObject |-> TRUE, input |-> i, output |-> o, settings |-> NoSettings] :
     i \in {NoPath, GoneIn, DirIn, OtherIn, LockedIn, AnimIn, StaticIn},
     o \in {NoPath, OutGif, OutPng, OutTxt}}
\* The call under study.  convertJobs: nothing (undefined, null), one job, or
\* an array of jobs.  "direct": convert(input, output, options) called by the
\* user, its three arguments held in the one entry of list.
JobArgs ==
  {[shape |-> "missing", list |-> <<>>]}
  \cup {[shape |-> "single", list |-> <<j>>] : j \in Jobs}
  \cup {[shape |-> "array", list |-> l] : l \in JobLists}
  \cup {[shape |-> "direct", list |-> <<c>>] : c \in DirectCalls}

VARIABLES
  jobs,       \* the call: the argument of convertJobs, or those of convert
  meta,       \* data.anim.frames of anim.webp: the delay of each frame
  defaultOptions, \* this.#defaultOptions as the constructor left it
  dirs,       \* the output-side directories that exist
  options,    \* per job: mergedOptions of its convert call
  pc,         \* the call: "start", "loop" (processing), "settled", "crashed"
  idx,        \* the processing loop's position in jobArray (1-based)
  results,    \* the results array
  outcome,    \* the promise convertJobs returned
  jpc,        \* per job: where its convert call stands
  jerr,       \* per job: the error its convert call threw
  output,     \* per job: the output path handed to convert
  frames,     \* per job: the listing of the folder taken before the frame loop
  fi,         \* per job: the frame loop's i
  added,      \* per job: the delays of the frames added to its encoder
  stream,     \* per job: its write stream: none, open, ended, finished, errored
  outFiles,   \* the output paths that exist on disk
  wsExists,   \* the temporary folders that exist
  wsFiles,    \* per folder: the frame numbers of the files listed in it
  unflushed,  \* per folder: frames anim_dump wrote that are not yet listed
  cleanup,    \* per job: cleanupAttempts, whether a retry timer is set, and
              \* how often cleanupFolder (calls) and its rmSync (rms) have run
  effects,    \* the side effects of the call so far, in order, with arguments
  warnings,   \* how often the deprecation warning has been printed
  imageIn,    \* the bytes getImageData returned for a frame
  data,       \* imageData.data while the alpha loop runs
  dj,         \* the alpha loop's j
  target,     \* install.js: os.platform() and os.arch() of the machine
  ipc,        \* install.js: the step main is awaiting, or "main", "exited"
  ilog,       \* install.js: the steps started so far, in order
  ifailed,    \* install.js: the step that has rejected, or "none"
  exitCode,   \* install.js: the exit status of the process, -1 while it runs
  ifs         \* install.js: which of archive, extracted, libwebp exist

vars == <<jobs, meta, defaultOptions, dirs, options, pc, idx, results, outcome,
          jpc, jerr, output, frames, fi, added, stream, outFiles, wsExists,
          wsFiles, unflushed, cleanup, effects, warnings, imageIn, data,
          dj, target, ipc, ilog, ifailed, exitCode, ifs>>

convVars == <<jobs, meta, defaultOptions, dirs, options, pc, idx, results,
              outcome, jpc, jerr, output, frames, fi, added, stream, outFiles,
              wsExists, wsFiles, unflushed, cleanup, effects, warnings>>
pixelVars == <<imageIn, data, dj>>
instVars == <<target, ipc, ilog, ifailed, exitCode, ifs>>

\* ------------------------------------------------------- pure functions
\* #validateJob without its statSync(...).isFile() check.
ValidateJobNoStat(job) ==
  IF ~job.isObject THEN "JobNotObject"
  ELSE IF job.input = NoPath THEN "NoInput"
  ELSE IF ~ExistsSync(job.input) THEN "NotExist"
  ELSE IF ExtName(job.input) # ".webp" THEN "NotWebp"
  ELSE "ok"

\* #validateJob: the error it throws for a job, or "ok".
ValidateJob(job) ==
  IF ~job.isObject THEN "JobNotObject"
  ELSE IF job.input = NoPath THEN "NoInput"
  ELSE IF ~ExistsSync(job.input) THEN "NotExist"
  ELSE IF ~IsFile(job.input) THEN "NotFile"
  ELSE IF ExtName(job.input) # ".webp" THEN "NotWebp"
  ELSE "ok"

\* The validation loop of convertJobs from position k on: the error of the
\* first job that fails #validateJob, or "ok".
RECURSIVE ValidateFrom(_, _)
ValidateFrom(list, k) ==
  IF k > Len(list) THEN "ok"
  ELSE IF ValidateJob(list[k]) # "ok" THEN ValidateJob(list[k])
  ELSE ValidateFrom(list, k + 1)

\* convertJobs validating only the job it is about to process first.
ValidateAllFirstOnly(arg) ==
  IF arg.shape = "missing" THEN "JobsRequired"
  ELSE IF Len(arg.list) = 0 THEN "ok"
  ELSE ValidateJob(arg.list[1])

\* The guard and the validation loop of convertJobs.
ValidateAll(arg) ==
  IF arg.shape = "missing" THEN "JobsRequired" ELSE ValidateFrom(arg.list, 1)

\* #generateOutputPath that never looks for the marker.
GenerateOutputPathStatic(input) ==
  [dir |-> input.dir, name |-> input.name, ext |-> ".png"]

\* #generateOutputPath: same directory, the name without its .webp, and the
\* extension by the ANIM marker; .png when readFileSync throws.
GenerateOutputPath(input) ==
  [dir |-> input.dir, name |-> input.name,
   ext |-> IF Readable(input) /\ HasAnimMarker(input) THEN ".gif" ELSE ".png"]

\* #processJob: job.output || this.#generateOutputPath(input)
ResolveOutput(job) ==
  IF job.output # NoPath THEN job.output ELSE GenerateOutputPath(job.input)

\* The argument checks of convert with the output extension checked first.
ConvertCheckExtFirst(input, out) ==
  IF input = NoPath THEN "InputRequired"
  ELSE IF out = NoPath THEN "OutputRequired"
  ELSE IF ExtName(out) \notin {".gif", ".png"} THEN "BadOutputExt"
  ELSE IF ~ExistsSync(input) THEN "NotExist"
  ELSE IF ~IsFile(input) THEN "NotFile"
  ELSE IF ExtName(input) # ".webp" THEN "NotWebp"
  ELSE "ok"

\* The argument checks at the head of convert: the error thrown, or "ok".
ConvertCheck(input, out) ==
  IF input = NoPath THEN "InputRequired"
  ELSE IF out = NoPath THEN "OutputRequired"
  ELSE IF ~ExistsSync(input) THEN "NotExist"
  ELSE IF ~IsFile(input) THEN "NotFile"
  ELSE IF ExtName(input) # ".webp" THEN "NotWebp"
  ELSE IF ExtName(out) \notin {".gif", ".png"} THEN "BadOutputExt"
  ELSE "ok"

\* The temporary folder of a conversion: tmpdir/webp-conv/basename(input).
Folder(input) == BaseName(input)

\* The options a convert call works with.  Through convertJobs, #processJob
\* spreads the job's settings over the defaults and convert spreads the result
\* over the defaults again; a direct call is spread once.
MergedOptions(defaults, call, settings) ==
  IF call = "direct" THEN Spread(defaults, settings)
  ELSE Spread(defaults, Spread(defaults, settings))

\* The fourth argument of convert: true in #processJob's call, left out (so
\* false) in a call by the user.
SuppressWarning(shape) == shape # "direct"

\* A warning printed on every call of convert.
WarnsAlways(suppressWarning) == TRUE

\* if (!suppressWarning) console.warn(...).
Warns(suppressWarning) == ~suppressWarning

\* A load that takes a still image for an animation of one frame.
LoadResultStillAsAnimation(input) ==
  IF ~Readable(input) THEN "LoadError" ELSE "ok"

\* img.load(input) and the read of data.anim.frames: load rejects for a file
\* that cannot be read, and data.anim is undefined for a file without
\* animation, so that reading its frames throws.
LoadResult(input) ==
  IF ~Readable(input) THEN "LoadError"
  ELSE IF ~HasAnimMarker(input) THEN "NotAnimated"
  ELSE "ok"

\* A merge done in place, Object.assign(this.#defaultOptions, settings).
DefaultOptionsAssigned(defaults, settings) == Spread(defaults, settings)

\* this.#defaultOptions after { ...this.#defaultOptions, ...settings } has
\* been evaluated: the spread builds a new object and writes to neither of
\* its operands.
DefaultOptionsAfterMerge(defaults, settings) == defaults

\* The dwebp command line with the quality appended.
DwebpArgsWithQuality(input, out, opts) == <<input, "-o", out, opts["quality"]>>

\* The arguments of the dwebp call.
DwebpArgs(input, out, opts) == <<input, "-o", out>>

\* The anim_dump command line writing into the folder of every conversion.
AnimDumpArgsSharedFolder(folder, input) == <<"-folder", <<"webp-conv">>, input>>

\* The arguments of the anim_dump call.
AnimDumpArgs(folder, input) == <<"-folder", folder, input>>

\* A catch block that lets a failed removal replace the error.
CaughtErrorMasked(error, rmFailed) == IF rmFailed THEN "CleanupError" ELSE error

\* The catch block of convert: cleanupFolder(); throw error.
CaughtError(error, rmFailed) == error

\* The decimal digits of n, most significant first.
RECURSIVE Digits(_)
Digits(n) == IF n < 10 THEN <<n>> ELSE Append(Digits(n \div 10), n % 10)

\* A frame file named by the bare number of the frame.
DumpNameUnpadded(n) == Digits(n)

\* The name anim_dump gives frame n: dump_NNNN.png, the number padded with
\* zeros to four digits.  The name is kept as its digits.
DumpName(n) ==
  LET d == Digits(n)
  IN IF Len(d) >= 4 THEN d ELSE [i \in 1..(4 - Len(d)) |-> 0] \o d

\* Byte-wise comparison of two names: a is listed no later than b.
RECURSIVE NameLeq(_, _)
NameLeq(a, b) ==
  IF a = <<>> THEN TRUE
  ELSE IF b = <<>> THEN FALSE
  ELSE IF Head(a) # Head(b) THEN Head(a) < Head(b)
  ELSE NameLeq(Tail(a), Tail(b))

\* fs.readdirSync lists a directory in ascending name order: the frames of a
\* folder in the order of their file names.
RECURSIVE ReaddirSync(_)
ReaddirSync(S) ==
  IF S = {} THEN <<>>
  ELSE LET m == CHOOSE x \in S : \A y \in S : NameLeq(DumpName(x), DumpName(y))
       IN <<m>> \o ReaddirSync(S \ {m})

\* A quality read as options.quality || 10: zero falls back to the default.
QualityOrDefault(mergedOptions) ==
  IF mergedOptions["quality"] = 0 THEN DefaultQuality
  ELSE mergedOptions["quality"]

\* const quality = mergedOptions.quality, the value given to setQuality.
Quality(mergedOptions) == mergedOptions["quality"]

\* An encoder told to repeat forever whatever the animation says.
SetRepeatForever(loops) == 0

\* The loop count handed to encoder.setRepeat.
SetRepeat(loops) == loops

\* The delay of the first frame for every frame.
FrameDelayFirst(rawFrames, i) == rawFrames[1]

\* The delay handed to encoder.setDelay for loop index i (0-based in the code).
FrameDelay(rawFrames, i) == rawFrames[i + 1]

\* The alpha loop's body with the comparison a <= 128.
ThresholdAlphaInclusive(a) == IF a > 0 /\ a <= AlphaCutoff THEN 0 ELSE a

\* The alpha loop's body on one alpha byte.
ThresholdAlpha(a) == IF a > 0 /\ a < AlphaCutoff THEN 0 ELSE a

\* ------------------------------------------------------------ initial state
Pending == [state |-> "pending", error |-> "none", isList |-> FALSE,
            path |-> NoPath, list |-> <<>>]

\* What an earlier, crashed run may have left in the temporary folder of
\* anim.webp: nothing, or the dumped frames of an animation.
StaleFolders == {0..(n - 1) : n \in {1, MaxFrames + 1}}

JobIds == 1..MaxJobs

\* The constructor: the hardcoded defaults with the argument spread over them.
Construct(arg) == Spread(HardDefaults, arg)

\* The directories output paths point into.
AllDirs == {"imgs", "out"}

\* let cleanupAttempts = 0, cleanupFolder not yet called.
NoCleanup == [attempts |-> 0, scheduled |-> FALSE, calls |-> 0, rms |-> 0]

\* install.js is not being run.
NotInstalling ==
  /\ target = [platform |-> "linux", arch |-> "x64"]
  /\ ipc = "idle"
  /\ ilog = <<>>
  /\ ifailed = "none"
  /\ exitCode = -1
  /\ ifs = {"libwebp"}

\* No call has done anything yet.
Fresh ==
  /\ pc = "start"
  /\ idx = 0
  /\ results = <<>>
  /\ outcome = Pending
  /\ jpc = [j \in JobIds |-> "idle"]
  /\ jerr = [j \in JobIds |-> "none"]
  /\ output = [j \in JobIds |-> NoPath]
  /\ options = [j \in JobIds |-> NoSettings]
  /\ frames = [j \in JobIds |-> <<>>]
  /\ fi = [j \in JobIds |-> 0]
  /\ added = [j \in JobIds |-> <<>>]
  /\ stream = [j \in JobIds |-> "none"]
  /\ outFiles = {}
  /\ unflushed = [k \in WsKeys |-> {}]
  /\ cleanup = [j \in JobIds |-> NoCleanup]
  /\ effects = <<>>
  /\ warnings = 0
  /\ NotInstalling

ConvInit ==
  /\ jobs \in JobArgs
  /\ meta \in Metas
  /\ defaultOptions = Construct(NoSettings)
  /\ dirs = AllDirs
  /\ \/ wsExists = {} /\ wsFiles = [k \in WsKeys |-> {}]
     \/ /\ wsExists = {Folder(AnimIn)}
        /\ \E st \in StaleFolders :
             wsFiles = [k \in WsKeys |-> IF k = Folder(AnimIn) THEN st ELSE {}]
  /\ Fresh

Init ==
  /\ ConvInit
  /\ imageIn = <<>>
  /\ data = <<>>
  /\ dj = 0

\* ------------------------------------------------------------- event loop
\* Positions of a convert call between its first await and its settling.
InFlight == {"dwebp", "img_load", "anim_dump", "poll_check", "poll_sleep",
             "load_image", "grace"}
\* Positions at which the folder of the conversion has been created.
HasWorkspace == {"anim_dump", "poll_check", "poll_sleep", "load_image", "grace"}
Settled == {"resolved", "rejected"}

\* Synchronous code is running (or is the next microtask): no timer or stream
\* callback can run before it reaches an await.
SyncRunning ==
  \/ pc = "start"
  \/ pc = "loop" /\ (idx > Len(jobs.list) \/ jpc[idx] = "idle")
  \/ \E j \in JobIds : jpc[j] = "poll_check"
AtAwait == pc # "crashed" /\ ~SyncRunning

Effect(op, j, args) == [op |-> op, job |-> j, args |-> args]

\* The folder of the conversion of job j.
JobFolder(j) == Folder(jobs.list[j].input)

\* A throw that leaves convertJobs: the returned promise rejects.
Reject(err) ==
  /\ pc' = "settled"
  /\ outcome' = [state |-> "rejected", error |-> err, isList |-> FALSE,
                 path |-> NoPath, list |-> <<>>]

\* convert of job j throws err and the loop goes on with the next job.
RejectJobContinue(j, err) ==
  /\ jpc' = [jpc EXCEPT ![j] = "rejected"]
  /\ jerr' = [jerr EXCEPT ![j] = err]
  /\ results' = Append(results, NoPath)
  /\ idx' = idx + 1
  /\ UNCHANGED <<pc, outcome>>

\* convert of job j throws err: neither #processJob nor convertJobs catches
\* it, so the loop is left and the call rejects with it.
RejectJob(j, err) ==
  /\ jpc' = [jpc EXCEPT ![j] = "rejected"]
  /\ jerr' = [jerr EXCEPT ![j] = err]
  /\ Reject(err)
  /\ UNCHANGED <<idx, results>>

\* A direct convert call returns o: its promise resolves with o.
Resolve(o) ==
  /\ pc' = "settled"
  /\ outcome' = [state |-> "resolved", error |-> "none", isList |-> FALSE,
                 path |-> o, list |-> <<>>]

\* convert of job j returns o: results.unshift(result).
JobReturnsUnshift(j, o) ==
  /\ jpc' = [jpc EXCEPT ![j] = "resolved"]
  /\ IF jobs.shape = "direct"
     THEN Resolve(o) /\ UNCHANGED <<results, idx, jerr>>
     ELSE /\ results' = <<o>> \o results
          /\ idx' = idx + 1
          /\ UNCHANGED <<pc, outcome, jerr>>

\* convert of job j returns o.  Called by the user, its promise resolves with
\* o; called by #processJob: results.push(result), next loop iteration.
JobReturns(j, o) ==
  /\ jpc' = [jpc EXCEPT ![j] = "resolved"]
  /\ IF jobs.shape = "direct"
     THEN Resolve(o) /\ UNCHANGED <<results, idx, jerr>>
     ELSE /\ results' = Append(results, o)
          /\ idx' = idx + 1
          /\ UNCHANGED <<pc, outcome, jerr>>

\* cleanupFolder that removes nothing.
CleanupFolderNoRm(j, key) ==
  /\ cleanup' = [cleanup EXCEPT ![j].scheduled = FALSE, ![j].calls = @ + 1]
  /\ UNCHANGED <<wsExists, wsFiles, unflushed>>

\* cleanupFolder whose failure escapes to the catch block of convert, which
\* calls it again.
CleanupFolderTwice(j, key) ==
  IF key \notin wsExists
  THEN /\ cleanup' = [cleanup EXCEPT ![j].scheduled = FALSE, ![j].calls = @ + 1]
       /\ UNCHANGED <<wsExists, wsFiles, unflushed>>
  ELSE \/ /\ wsExists' = wsExists \ {key}
          /\ wsFiles' = [wsFiles EXCEPT ![key] = {}]
          /\ unflushed' = [unflushed EXCEPT ![key] = {}]
          /\ cleanup' = [cleanup EXCEPT ![j].scheduled = FALSE,
                                        ![j].calls = @ + 1, ![j].rms = @ + 1]
       \/ /\ cleanup' = [cleanup EXCEPT ![j] =
                           [attempts |-> @.attempts + 2,
                            scheduled |-> @.attempts + 2 < maxCleanupAttempts,
                            calls |-> @.calls + 2, rms |-> @.rms + 2]]
          /\ UNCHANGED <<wsExists, wsFiles, unflushed>>

\* cleanupFolder that reschedules itself after every failure.
CleanupFolderNoBound(j, key) ==
  IF key \notin wsExists
  THEN /\ cleanup' = [cleanup EXCEPT ![j].scheduled = FALSE, ![j].calls = @ + 1]
       /\ UNCHANGED <<wsExists, wsFiles, unflushed>>
  ELSE \/ /\ wsExists' = wsExists \ {key}
          /\ wsFiles' = [wsFiles EXCEPT ![key] = {}]
          /\ unflushed' = [unflushed EXCEPT ![key] = {}]
          /\ cleanup' = [cleanup EXCEPT ![j].scheduled = FALSE,
                                        ![j].calls = @ + 1, ![j].rms = @ + 1]
       \/ /\ cleanup' = [cleanup EXCEPT ![j] =
                           [attempts |-> @.attempts + 1, scheduled |-> TRUE,
                            calls |-> @.calls + 1, rms |-> @.rms + 1]]
          /\ UNCHANGED <<wsExists, wsFiles, unflushed>>

\* cleanupFolder of the conversion of job j, whose folder is key: nothing to
\* do when the folder is gone; else rmSync removes it, or throws, which is
\* counted and, below maxCleanupAttempts, answered with a 100 ms timer.
CleanupFolder(j, key) ==
  IF key \notin wsExists
  THEN /\ cleanup' = [cleanup EXCEPT ![j].scheduled = FALSE, ![j].calls = @ + 1]
       /\ UNCHANGED <<wsExists, wsFiles, unflushed>>
  ELSE \/ /\ wsExists' = wsExists \ {key}
          /\ wsFiles' = [wsFiles EXCEPT ![key] = {}]
          /\ unflushed' = [unflushed EXCEPT ![key] = {}]
          /\ cleanup' = [cleanup EXCEPT ![j].scheduled = FALSE,
                                        ![j].calls = @ + 1, ![j].rms = @ + 1]
       \/ /\ cleanup' = [cleanup EXCEPT ![j] =
                           [attempts |-> @.attempts + 1,
                            scheduled |-> @.attempts + 1 < maxCleanupAttempts,
                            calls |-> @.calls + 1, rms |-> @.rms + 1]]
          /\ UNCHANGED <<wsExists, wsFiles, unflushed>>

\* ----------------------------------------------------------------- actions
\* convertJobs up to the end of the validation loop.
Start ==
  /\ pc = "start"
  /\ jobs.shape # "direct"
  /\ IF ValidateAll(jobs) # "ok"
     THEN Reject(ValidateAll(jobs)) /\ UNCHANGED idx
     ELSE pc' = "loop" /\ idx' = 1 /\ UNCHANGED outcome
  /\ UNCHANGED <<jobs, meta, defaultOptions, dirs, options, results, jpc, jerr, output, frames, fi, added, stream,
                 outFiles, wsExists, wsFiles, unflushed, cleanup, effects,
                 pixelVars, warnings, instVars>>

\* The processing loop is over: return isArray ? results : results[0].
Finish ==
  /\ pc = "loop"
  /\ idx > Len(jobs.list)
  /\ pc' = "settled"
  /\ outcome' = [state |-> "resolved", error |-> "none",
                 isList |-> (jobs.shape = "array"),
                 path |-> IF jobs.shape = "array" THEN NoPath ELSE results[1],
                 list |-> IF jobs.shape = "array" THEN results ELSE <<>>]
  /\ UNCHANGED <<jobs, meta, defaultOptions, dirs, options, idx, results, jpc, jerr, output, frames, fi, added,
                 stream, outFiles, wsExists, wsFiles, unflushed, cleanup,
                 effects, pixelVars, warnings, instVars>>

\* The user calls convert(input, output, options): suppressWarning is false,
\* the deprecation warning is printed and the argument checks come next.
DirectCall ==
  /\ pc = "start"
  /\ jobs.shape = "direct"
  /\ pc' = "loop"
  /\ idx' = 1
  /\ warnings' = warnings + (IF Warns(SuppressWarning("direct")) THEN 1 ELSE 0)
  /\ UNCHANGED <<jobs, meta, defaultOptions, dirs, options, results, outcome, jpc,
                 jerr, output, frames, fi, added, stream, outFiles, wsExists,
                 wsFiles, unflushed, cleanup, effects, pixelVars, instVars>>

\* The loop without its await: every job is started at once.
CanStartNoAwait(i) == pc = "loop"

\* The loop reaches job i only when every await before it has returned.
CanStart(i) == pc = "loop" /\ idx = i

\* One loop iteration up to its await: #processJob and convert up to convert's
\* first await (execFileAsync of dwebp, or img.load).
JobStart ==
  \E i \in JobIds :
    /\ CanStart(i)
    /\ i <= Len(jobs.list)
    /\ jpc[i] = "idle"
    /\ LET job == jobs.list[i]
           o == IF jobs.shape = "direct" THEN job.output ELSE ResolveOutput(job)
           err == ConvertCheck(job.input, o)
           opts == MergedOptions(defaultOptions, jobs.shape, job.settings)
       IN /\ output' = [output EXCEPT ![i] = o]
          /\ IF err # "ok"
             THEN RejectJob(i, err) /\ UNCHANGED <<effects, options>>
             ELSE /\ UNCHANGED <<pc, outcome, idx, results, jerr>>
                  /\ options' = [options EXCEPT ![i] = opts]
                  /\ IF ExtName(o) = ".png"
                     THEN /\ jpc' = [jpc EXCEPT ![i] = "dwebp"]
                          /\ effects' = Append(effects,
                                Effect("dwebp", i, DwebpArgs(job.input, o, opts)))
                     ELSE /\ jpc' = [jpc EXCEPT ![i] = "img_load"]
                          /\ UNCHANGED effects
          /\ defaultOptions' = DefaultOptionsAfterMerge(defaultOptions, job.settings)
    /\ warnings' = IF jobs.shape # "direct" /\ Warns(SuppressWarning(jobs.shape))
                   THEN warnings + 1 ELSE warnings
    /\ UNCHANGED <<jobs, meta, dirs, frames, fi, added, stream, outFiles, wsExists,
                   wsFiles, unflushed, cleanup, pixelVars, instVars>>

\* dwebp exits: zero (it read the input and wrote the output) or with an error.
DwebpExit ==
  \E j \in JobIds :
    /\ jpc[j] = "dwebp"
    /\ \/ /\ Readable(jobs.list[j].input)
          /\ output[j].dir \in dirs
          /\ outFiles' = outFiles \cup {output[j]}
          /\ JobReturns(j, output[j])
       \/ /\ RejectJob(j, "DwebpError")
          /\ UNCHANGED outFiles
    /\ UNCHANGED <<jobs, meta, defaultOptions, dirs, options, output, frames, fi, added, stream, wsExists,
                   wsFiles, unflushed, cleanup, effects, pixelVars, warnings, instVars>>

\* Setup that opens the output only when the encoder is finished.
SetupCallsLateOpen(j) ==
  <<Effect("start", j, <<>>),
    Effect("setRepeat", j, <<SetRepeat(AnimLoops(meta))>>),
    Effect("setTransparent", j, <<options[j]["transparent"]>>),
    Effect("setQuality", j, <<Quality(options[j])>>),
    Effect("mkdir", j, <<JobFolder(j)>>),
    Effect("anim_dump", j, AnimDumpArgs(JobFolder(j), jobs.list[j].input))>>

\* The calls convert makes between the load of the image and its await of
\* anim_dump, in order: createWriteStream(output), the encoder's start and
\* settings, mkdirSync(folder), anim_dump.
SetupCalls(j) ==
  <<Effect("open", j, <<output[j]>>),
    Effect("start", j, <<>>),
    Effect("setRepeat", j, <<SetRepeat(AnimLoops(meta))>>),
    Effect("setTransparent", j, <<options[j]["transparent"]>>),
    Effect("setQuality", j, <<Quality(options[j])>>),
    Effect("mkdir", j, <<JobFolder(j)>>),
    Effect("anim_dump", j, AnimDumpArgs(JobFolder(j), jobs.list[j].input))>>

\* img.load and img.initLib are done: read the animation (a TypeError when
\* the file has none), create the encoder and its write stream, prepare the
\* folder (a failing removal of a stale folder is ignored) and start anim_dump.
ImgLoaded ==
  \E j \in JobIds :
    /\ jpc[j] = "img_load"
    /\ IF LoadResult(jobs.list[j].input) # "ok"
       THEN /\ RejectJob(j, LoadResult(jobs.list[j].input))
            /\ UNCHANGED <<stream, outFiles, wsExists, wsFiles, unflushed,
                           cleanup, effects>>
       ELSE /\ stream' = [stream EXCEPT ![j] = "open"]
            /\ outFiles' = IF output[j].dir \in dirs
                           THEN outFiles \cup {output[j]} ELSE outFiles
            /\ \/ /\ wsFiles' = [wsFiles EXCEPT ![JobFolder(j)] = {}]
                  /\ unflushed' = [unflushed EXCEPT ![JobFolder(j)] = {}]
               \/ /\ JobFolder(j) \in wsExists
                  /\ UNCHANGED <<wsFiles, unflushed>>
            /\ wsExists' = wsExists \cup {JobFolder(j)}
            /\ cleanup' = [cleanup EXCEPT ![j] = NoCleanup]
            /\ effects' = effects \o SetupCalls(j)
            /\ jpc' = [jpc EXCEPT ![j] = "anim_dump"]
            /\ UNCHANGED <<pc, outcome, idx, results, jerr>>
    /\ UNCHANGED <<jobs, meta, defaultOptions, dirs, options, output, frames, fi, added, pixelVars, warnings, instVars>>

\* An anim_dump exit whose error is only logged: the conversion goes on to
\* wait for the frames.
AnimDumpExitErrorLogged ==
  \E j \in JobIds :
    /\ jpc[j] = "anim_dump"
    /\ \/ /\ JobFolder(j) \in wsExists
          /\ \E m \in {n \in (Len(meta) - 1)..(Len(meta) + 1) : n >= 0} :
               unflushed' = [unflushed EXCEPT ![JobFolder(j)] = 0..(m - 1)]
          /\ UNCHANGED jerr
       \/ /\ jerr' = [jerr EXCEPT ![j] = "AnimDumpError"]
          /\ UNCHANGED unflushed
    /\ jpc' = [jpc EXCEPT ![j] = "poll_check"]
    /\ UNCHANGED <<wsExists, wsFiles, cleanup, pc, outcome, idx, results>>
    /\ UNCHANGED <<jobs, meta, defaultOptions, dirs, options, output, frames, fi, added, stream, outFiles,
                   effects, pixelVars, warnings, instVars>>

\* anim_dump exits. With exit code zero it has written the frames it decoded
\* (one fewer than, as many as, or one more than the metadata lists); they
\* become visible in the listing one by one (DecoderFlush).  Otherwise
\* execFileAsync rejects: catch, cleanupFolder, rethrow.
AnimDumpExit ==
  \E j \in JobIds :
    /\ jpc[j] = "anim_dump"
    /\ \/ /\ JobFolder(j) \in wsExists
          /\ \E m \in {n \in (Len(meta) - 1)..(Len(meta) + 1) : n >= 0} :
               unflushed' = [unflushed EXCEPT ![JobFolder(j)] = 0..(m - 1)]
          /\ jpc' = [jpc EXCEPT ![j] = "poll_check"]
          /\ UNCHANGED <<wsExists, wsFiles, cleanup, pc, outcome, idx, results, jerr>>
       \/ /\ CleanupFolder(j, JobFolder(j))
          /\ RejectJob(j, CaughtError("AnimDumpError", cleanup'[j].attempts # cleanup[j].attempts))
    /\ UNCHANGED <<jobs, meta, defaultOptions, dirs, options, output, frames, fi, added, stream, outFiles,
                   effects, pixelVars, warnings, instVars>>

\* A file written by anim_dump becomes visible in the folder's listing.
DecoderFlush ==
  \E key \in WsKeys :
    /\ unflushed[key] # {}
    /\ key \in wsExists
    /\ LET f == CHOOSE x \in unflushed[key] : \A y \in unflushed[key] : x <= y
       IN /\ wsFiles' = [wsFiles EXCEPT ![key] = @ \cup {f}]
          /\ unflushed' = [unflushed EXCEPT ![key] = @ \ {f}]
    /\ UNCHANGED <<jobs, meta, defaultOptions, dirs, options, pc, idx, results, outcome, jpc, jerr, output, frames,
                   fi, added, stream, outFiles, wsExists, cleanup, effects,
                   pixelVars, warnings, instVars>>

\* A wait that is over as soon as the folder holds anything.
FramesReadyAny(entries, expectedCount) == entries # {}

\* A wait that is over as soon as the folder holds no more than the expected
\* number of files.
FramesReadyAtMost(entries, expectedCount) == Cardinality(entries) <= expectedCount

\* The loop condition of waitForFrames, negated: the wait is over.
FramesReady(entries, expectedCount) == Cardinality(entries) = expectedCount

\* One evaluation of waitForFrames' loop condition and what follows it: sleep
\* 50 ms, or leave the loop, list the folder and start loading frame 0.
\* readdirSync throws when the folder is gone: catch, cleanupFolder, rethrow.
PollCheck ==
  \E j \in JobIds :
    /\ jpc[j] = "poll_check"
    /\ IF JobFolder(j) \notin wsExists
       THEN /\ CleanupFolder(j, JobFolder(j))
            /\ RejectJob(j, CaughtError("ENOENT", cleanup'[j].attempts # cleanup[j].attempts))
            /\ UNCHANGED <<frames, fi, stream, effects>>
       ELSE /\ UNCHANGED <<wsExists, wsFiles, unflushed, cleanup, pc, outcome,
                           idx, results, jerr>>
            /\ IF ~FramesReady(wsFiles[JobFolder(j)], Len(meta))
               THEN /\ jpc' = [jpc EXCEPT ![j] = "poll_sleep"]
                    /\ UNCHANGED <<frames, fi, stream, effects>>
               ELSE /\ frames' = [frames EXCEPT ![j] = ReaddirSync(wsFiles[JobFolder(j)])]
                    /\ fi' = [fi EXCEPT ![j] = 0]
                    /\ IF wsFiles[JobFolder(j)] # {}
                       THEN /\ jpc' = [jpc EXCEPT ![j] = "load_image"]
                            /\ UNCHANGED <<stream, effects>>
                       ELSE /\ jpc' = [jpc EXCEPT ![j] = "grace"]
                            /\ stream' = [stream EXCEPT ![j] = "ended"]
                            /\ effects' = Append(effects, Effect("finish", j, <<>>))
    /\ UNCHANGED <<jobs, meta, defaultOptions, dirs, options, output, added, outFiles, pixelVars, warnings, instVars>>

\* The 50 ms timer of waitForFrames fires.
PollWake ==
  \E j \in JobIds :
    /\ jpc[j] = "poll_sleep"
    /\ jpc' = [jpc EXCEPT ![j] = "poll_check"]
    /\ UNCHANGED <<jobs, meta, defaultOptions, dirs, options, pc, idx, results, outcome, jerr, output, frames, fi,
                   added, stream, outFiles, wsExists, wsFiles, unflushed,
                   cleanup, effects, pixelVars, warnings, instVars>>

\* loadImage of frames[i] settles.  Loaded: draw, threshold, setDelay,
\* addFrame, then the next frame or encoder.finish() and the 100 ms grace
\* delay.  Failed (or rawFrames[i] undefined): catch, cleanupFolder, rethrow.
FrameLoaded ==
  \E j \in JobIds :
    /\ jpc[j] = "load_image"
    /\ \/ /\ JobFolder(j) \in wsExists
          /\ frames[j][fi[j] + 1] \in wsFiles[JobFolder(j)]
          /\ fi[j] < Len(meta)
          /\ added' = [added EXCEPT ![j] = Append(@, FrameDelay(meta, fi[j]))]
          /\ fi' = [fi EXCEPT ![j] = @ + 1]
          /\ IF fi[j] + 1 < Len(frames[j])
             THEN /\ effects' = effects \o
                       <<Effect("setDelay", j, <<FrameDelay(meta, fi[j])>>),
                         Effect("addFrame", j, <<frames[j][fi[j] + 1]>>)>>
                  /\ UNCHANGED <<stream, jpc>>
             ELSE /\ jpc' = [jpc EXCEPT ![j] = "grace"]
                  /\ effects' = effects \o
                       <<Effect("setDelay", j, <<FrameDelay(meta, fi[j])>>),
                         Effect("addFrame", j, <<frames[j][fi[j] + 1]>>),
                         Effect("finish", j, <<>>)>>
                  /\ stream' = [stream EXCEPT ![j] = "ended"]
          /\ UNCHANGED <<wsExists, wsFiles, unflushed, cleanup, pc, outcome,
                         idx, results, jerr>>
       \/ /\ CleanupFolder(j, JobFolder(j))
          /\ RejectJob(j, CaughtError("FrameError", cleanup'[j].attempts # cleanup[j].attempts))
          /\ UNCHANGED <<added, fi, effects, stream>>
    /\ UNCHANGED <<jobs, meta, defaultOptions, dirs, options, output, frames, outFiles, pixelVars, warnings, instVars>>

\* A return after the grace delay that leaves the folder behind.
GraceDoneNoCleanup ==
  \E j \in JobIds :
    /\ jpc[j] = "grace"
    /\ JobReturns(j, output[j])
    /\ UNCHANGED <<wsExists, wsFiles, unflushed, cleanup>>
    /\ UNCHANGED <<jobs, meta, defaultOptions, dirs, options, output, frames, fi, added, stream, outFiles,
                   effects, pixelVars, warnings, instVars>>

\* The grace delay is over: cleanupFolder() and return output.
GraceDone ==
  \E j \in JobIds :
    /\ jpc[j] = "grace"
    /\ CleanupFolder(j, JobFolder(j))
    /\ JobReturns(j, output[j])
    /\ UNCHANGED <<jobs, meta, defaultOptions, dirs, options, output, frames, fi, added, stream, outFiles,
                   effects, pixelVars, warnings, instVars>>

\* The 100 ms timer set by a failed cleanupFolder of job j fires.
CleanupRetry ==
  \E j \in JobIds :
    /\ AtAwait
    /\ cleanup[j].scheduled
    /\ CleanupFolder(j, JobFolder(j))
    /\ UNCHANGED <<jobs, meta, defaultOptions, dirs, options, pc, idx, results, outcome, jpc, jerr, output, frames,
                   fi, added, stream, outFiles, effects, pixelVars, warnings, instVars>>

\* The write stream of job j has flushed everything: its 'finish' event.
StreamFinish ==
  \E j \in JobIds :
    /\ AtAwait
    /\ stream[j] = "ended"
    /\ output[j].dir \in dirs
    /\ stream' = [stream EXCEPT ![j] = "finished"]
    /\ UNCHANGED <<jobs, meta, defaultOptions, dirs, options, pc, idx, results, outcome, jpc, jerr, output, frames,
                   fi, added, outFiles, wsExists, wsFiles, unflushed, cleanup,
                   effects, pixelVars, warnings, instVars>>

Next ==
  \/ Start
  \/ DirectCall
  \/ Finish
  \/ JobStart
  \/ DwebpExit
  \/ ImgLoaded
  \/ AnimDumpExit
  \/ DecoderFlush
  \/ PollCheck
  \/ PollWake
  \/ FrameLoaded
  \/ GraceDone
  \/ CleanupRetry
  \/ StreamFinish

Spec == Init /\ [][Next]_vars

\* Every callback the event loop has ready is run, every process exits and
\* every written file becomes visible.
Fairness ==
  /\ WF_vars(Start)
  /\ WF_vars(DirectCall)
  /\ WF_vars(Finish)
  /\ WF_vars(JobStart)
  /\ WF_vars(DwebpExit)
  /\ WF_vars(ImgLoaded)
  /\ WF_vars(AnimDumpExit)
  /\ WF_vars(DecoderFlush)
  /\ WF_vars(PollCheck)
  /\ WF_vars(PollWake)
  /\ WF_vars(FrameLoaded)
  /\ WF_vars(GraceDone)
  /\ WF_vars(CleanupRetry)
  /\ WF_vars(StreamFinish)

FairSpec == Init /\ [][Next]_vars /\ Fairness

\* ------------------------------------------------- calls that carry settings
\* Conversions of static.webp to PNG and of anim.webp to GIF, through
\* convertJobs or convert, with every settings object, on a converter built
\* with every constructor argument; the batches are batches of PNG jobs.
PngSettingsJobs ==
  {[isObject |-> TRUE, input |-> StaticIn, output |-> OutPng, settings |-> st] :
     st \in SettingsObjs}
GifSettingsJobs ==
  {[isObject |-> TRUE, input |-> AnimIn, output |-> OutGif, settings |-> st] :
     st \in SettingsObjs}
SettingsCalls ==
  {[shape |-> sh, list |-> <<j>>] :
     sh \in {"single", "direct"}, j \in PngSettingsJobs \cup GifSettingsJobs}
  \cup {[shape |-> "array", list |-> l] :
          l \in UNION {[1..n -> PngSettingsJobs] : n \in 2..MaxJobs}}

SettingsInit ==
  /\ jobs \in SettingsCalls
  /\ meta = <<100>>
  /\ \E arg \in CtorArgs : defaultOptions = Construct(arg)
  /\ dirs = AllDirs
  /\ wsExists = {}
  /\ wsFiles = [k \in WsKeys |-> {}]
  /\ Fresh
  /\ imageIn = <<>>
  /\ data = <<>>
  /\ dj = 0

SettingsSpec == SettingsInit /\ [][Next]_vars

\* ------------------------------------------- two inputs with one base name
\* Conversions of imgs/anim.webp and more/anim.webp, and a still image.
TwinJobs ==
  {[isObject |-> TRUE, input |-> i, output |-> OutGif, settings |-> NoSettings] :
     i \in {AnimIn, AnimTwin}}
TwinCalls ==
  {[shape |-> sh, list |-> <<j>>] :
     sh \in {"single", "direct"},
     j \in TwinJobs \cup {[isObject |-> TRUE, input |-> StaticIn,
                           output |-> OutPng, settings |-> NoSettings]}}
  \cup {[shape |-> "array", list |-> l] :
          l \in UNION {[1..n -> TwinJobs] : n \in 2..MaxJobs}}

TwinInit ==
  /\ jobs \in TwinCalls
  /\ meta = <<100>>
  /\ defaultOptions = Construct(NoSettings)
  /\ dirs = AllDirs
  /\ wsExists = {}
  /\ wsFiles = [k \in WsKeys |-> {}]
  /\ Fresh
  /\ imageIn = <<>>
  /\ data = <<>>
  /\ dj = 0

TwinSpec == TwinInit /\ [][Next]_vars

\* ------------------------------------------------ every quality of the range
\* Conversions of anim.webp with each quality 0..MaxQuality, or none, in the
\* settings, and a still image.
QualityJobs ==
  {[isObject |-> TRUE, input |-> AnimIn, output |-> OutGif, settings |-> st] :
     st \in {NoSettings} \cup {[quality |-> q] : q \in 0..MaxQuality}}
  \cup {[isObject |-> TRUE, input |-> StaticIn, output |-> OutPng,
          settings |-> NoSettings]}
QualityCalls ==
  {[shape |-> sh, list |-> <<j>>] : sh \in {"single", "direct"}, j \in QualityJobs}

QualityInit ==
  /\ jobs \in QualityCalls
  /\ meta = <<100>>
  /\ \E arg \in CtorArgs : defaultOptions = Construct(arg)
  /\ dirs = AllDirs
  /\ wsExists = {}
  /\ wsFiles = [k \in WsKeys |-> {}]
  /\ Fresh
  /\ imageIn = <<>>
  /\ data = <<>>
  /\ dj = 0

QualitySpec == QualityInit /\ [][Next]_vars

\* ------------------------------------------------- an animation of many frames
\* An animation long enough for its frame numbers to differ in length.
LongFrames == 11
LongCalls ==
  {[shape |-> sh, list |-> <<j>>] :
     sh \in {"single", "direct"},
     j \in {[isObject |-> TRUE, input |-> AnimIn, output |-> OutGif,
             settings |-> NoSettings],
            [isObject |-> TRUE, input |-> StaticIn, output |-> OutPng,
             settings |-> NoSettings]}}

LongInit ==
  /\ jobs \in LongCalls
  /\ meta = [i \in 1..LongFrames |-> DelayOf(i)]
  /\ defaultOptions = Construct(NoSettings)
  /\ dirs = AllDirs
  /\ wsExists = {}
  /\ wsFiles = [k \in WsKeys |-> {}]
  /\ Fresh
  /\ imageIn = <<>>
  /\ data = <<>>
  /\ dj = 0

LongSpec == LongInit /\ [][Next]_vars

\* ------------------------------------------ an output directory that is missing
\* Conversions into out/, which the caller may not have created.
DirJobs ==
  {[isObject |-> TRUE, input |-> StaticIn, output |-> OutPng, settings |-> NoSettings],
   [isObject |-> TRUE, input |-> AnimIn, output |-> OutGif, settings |-> NoSettings]}
DirCalls ==
  {[shape |-> sh, list |-> <<j>>] : sh \in {"single", "direct"}, j \in DirJobs}
  \cup {[shape |-> "array", list |-> l] :
          l \in UNION {[1..n -> DirJobs] : n \in 2..MaxJobs}}

DirInit ==
  /\ jobs \in DirCalls
  /\ meta \in Metas
  /\ defaultOptions = Construct(NoSettings)
  /\ dirs \in {AllDirs, AllDirs \ {OutGif.dir}}
  /\ wsExists = {}
  /\ wsFiles = [k \in WsKeys |-> {}]
  /\ Fresh
  /\ imageIn = <<>>
  /\ data = <<>>
  /\ dj = 0

\* The write stream of job j fails to open its file (ENOENT): it emits
\* 'error', nothing listens, and the uncaught exception ends the process with
\* the call's promise still pending.
StreamOpenError ==
  \E j \in JobIds :
    /\ AtAwait
    /\ stream[j] \in {"open", "ended"}
    /\ output[j].dir \notin dirs
    /\ stream' = [stream EXCEPT ![j] = "errored"]
    /\ pc' = "crashed"
    /\ jpc' = [i \in JobIds |-> IF jpc[i] \in InFlight THEN "crashed" ELSE jpc[i]]
    /\ UNCHANGED <<jobs, meta, defaultOptions, dirs, options, idx, results, outcome,
                   jerr, output, frames, fi, added, outFiles, wsExists, wsFiles,
                   unflushed, cleanup, effects, pixelVars, warnings, instVars>>

DirNext == Next \/ StreamOpenError

DirSpec == DirInit /\ [][DirNext]_vars

\* ------------------------------------------------------------ the alpha loop
\* Byte values on both sides of every comparison of the loop.
Colours == {<<0, 0, 0>>, <<100, 100, 100>>, <<255, 128, 1>>}
AlphaVals == {0, 1, 127, 128, 129, 255}
Pixels == {c \o <<a>> : c \in Colours, a \in AlphaVals}
\* imageData.data: four bytes per pixel, R G B A.
Flatten(ps) ==
  [k \in 1..(4 * Len(ps)) |-> ps[((k - 1) \div 4) + 1][((k - 1) % 4) + 1]]
ImageDatas == UNION {{Flatten(ps) : ps \in [1..n -> Pixels]} : n \in 1..MaxPixels}

\* getImageData has returned the bytes of a drawn frame.
AlphaInit ==
  /\ ConvInit
  /\ jobs.shape = "missing"
  /\ meta = <<100>>
  /\ wsExists = {}
  /\ imageIn \in ImageDatas
  /\ data = imageIn
  /\ dj = 0

\* One iteration of for (j = 0; j < data.length; j += 4): data[j + 3] is the
\* alpha byte (index j + 4 when counting from 1).
AlphaStep ==
  /\ dj < Len(data)
  /\ data' = [data EXCEPT ![dj + 4] = ThresholdAlpha(@)]
  /\ dj' = dj + 4
  /\ UNCHANGED <<imageIn, convVars, instVars>>

AlphaSpec == AlphaInit /\ [][AlphaStep]_vars

\* ------------------------------------------------------------ install.js
\* The machines the installer may run on.
Platforms == {"linux", "darwin", "win32", "freebsd"}
Archs == {"x64", "arm64", "ia32"}
Targets == {[platform |-> p, arch |-> a] : p \in Platforms, a \in Archs}

NoArchive == [suffix |-> "", type |-> ""]

\* A lookup that falls back to the linux-x64 archive for an unknown machine.
GetArchiveInfoFallback(platform, arch) ==
  IF platform = "linux" /\ arch = "arm64"
  THEN [suffix |-> "linux-aarch64", type |-> "tar.gz"]
  ELSE IF platform = "darwin" /\ arch = "x64"
  THEN [suffix |-> "mac-x86-64", type |-> "tar.gz"]
  ELSE IF platform = "darwin" /\ arch = "arm64"
  THEN [suffix |-> "mac-arm64", type |-> "tar.gz"]
  ELSE IF platform = "win32" /\ arch = "x64"
  THEN [suffix |-> "windows-x64", type |-> "zip"]
  ELSE [suffix |-> "linux-x86-64", type |-> "tar.gz"]

\* getArchiveInfo: the archive of a platform-arch pair of the mapping, or
\* null (NoArchive) for any other pair.
GetArchiveInfo(platform, arch) ==
  IF platform = "linux" /\ arch = "x64"
  THEN [suffix |-> "linux-x86-64", type |-> "tar.gz"]
  ELSE IF platform = "linux" /\ arch = "arm64"
  THEN [suffix |-> "linux-aarch64", type |-> "tar.gz"]
  ELSE IF platform = "darwin" /\ arch = "x64"
  THEN [suffix |-> "mac-x86-64", type |-> "tar.gz"]
  ELSE IF platform = "darwin" /\ arch = "arm64"
  THEN [suffix |-> "mac-arm64", type |-> "tar.gz"]
  ELSE IF platform = "win32" /\ arch = "x64"
  THEN [suffix |-> "windows-x64", type |-> "zip"]
  ELSE NoArchive

\* The step main starts next: it is logged and awaited.
Await(step) ==
  /\ ipc' = step
  /\ ilog' = Append(ilog, step)

\* An awaited step has rejected: the catch block of main logs the error and
\* awaits cleanup(localArchivePath).
Caught(step) ==
  /\ ifailed' = step
  /\ ipc' = "catch_unlink"
  /\ ilog' = Append(ilog, "unlink")

\* main up to its first await: the unsupported-machine error is thrown before
\* the try block and reaches main().catch, which exits with status 1.
InstallStart ==
  /\ ipc = "main"
  /\ IF GetArchiveInfo(target.platform, target.arch) = NoArchive
     THEN /\ ipc' = "exited"
          /\ exitCode' = 1
          /\ UNCHANGED <<ilog, ifailed>>
     ELSE /\ Await("download")
          /\ UNCHANGED <<exitCode, ifailed>>
  /\ UNCHANGED <<target, ifs, convVars, pixelVars>>

\* downloadFile settles.  On an error it unlinks what it has written, the
\* result of which it ignores.
DownloadDone ==
  /\ ipc = "download"
  /\ \/ /\ ifs' = ifs \cup {"archive"}
        /\ Await("rm_old")
        /\ UNCHANGED ifailed
     \/ /\ ifs' \in {ifs, ifs \cup {"archive"}}
        /\ Caught("download")
  /\ UNCHANGED <<target, exitCode, convVars, pixelVars>>

\* cleanupExistingDirectory settles: fs.rm with force of the libwebp folder.
RmOldDone ==
  /\ ipc = "rm_old"
  /\ \/ /\ ifs' = ifs \ {"libwebp"}
        /\ Await("extract")
        /\ UNCHANGED ifailed
     \/ /\ UNCHANGED ifs
        /\ Caught("rm_old")
  /\ UNCHANGED <<target, exitCode, convVars, pixelVars>>

\* extractArchive settles: tar has run and the extracted folder was found,
\* or tar failed or the folder was not found.
ExtractDone ==
  /\ ipc = "extract"
  /\ \/ /\ ifs' = ifs \cup {"extracted"}
        /\ Await("rename")
        /\ UNCHANGED ifailed
     \/ /\ UNCHANGED ifs
        /\ Caught("extract")
  /\ UNCHANGED <<target, exitCode, convVars, pixelVars>>

\* setupLibwebpDirectory settles: fs.rename of the extracted folder.
RenameDone ==
  /\ ipc = "rename"
  /\ \/ /\ ifs' = (ifs \ {"extracted"}) \cup {"libwebp"}
        /\ Await("unlink")
        /\ UNCHANGED ifailed
     \/ /\ UNCHANGED ifs
        /\ Caught("rename")
  /\ UNCHANGED <<target, exitCode, convVars, pixelVars>>

\* cleanup(localArchivePath) of the try block settles: main returns and the
\* process ends with status 0, or the catch block runs.
UnlinkDone ==
  /\ ipc = "unlink"
  /\ \/ /\ ifs' = ifs \ {"archive"}
        /\ ipc' = "exited"
        /\ exitCode' = 0
        /\ UNCHANGED <<ilog, ifailed>>
     \/ /\ UNCHANGED <<ifs, exitCode>>
        /\ Caught("unlink")
  /\ UNCHANGED <<target, convVars, pixelVars>>

\* cleanup(localArchivePath).catch(() => {}) of the catch block settles,
\* either way, and process.exit(1) follows.
CatchUnlinkDone ==
  /\ ipc = "catch_unlink"
  /\ ifs' \in {ifs, ifs \ {"archive"}}
  /\ ipc' = "exited"
  /\ exitCode' = 1
  /\ UNCHANGED <<target, ilog, ifailed, convVars, pixelVars>>

\* node install.js on some machine, with or without an earlier libwebp folder.
InstallInit ==
  /\ jobs = [shape |-> "missing", list |-> <<>>]
  /\ meta = <<100>>
  /\ defaultOptions = Construct(NoSettings)
  /\ dirs = AllDirs
  /\ wsExists = {}
  /\ wsFiles = [k \in WsKeys |-> {}]
  /\ pc = "start"
  /\ idx = 0
  /\ results = <<>>
  /\ outcome = Pending
  /\ jpc = [j \in JobIds |-> "idle"]
  /\ jerr = [j \in JobIds |-> "none"]
  /\ output = [j \in JobIds |-> NoPath]
  /\ options = [j \in JobIds |-> NoSettings]
  /\ frames = [j \in JobIds |-> <<>>]
  /\ fi = [j \in JobIds |-> 0]
  /\ added = [j \in JobIds |-> <<>>]
  /\ stream = [j \in JobIds |-> "none"]
  /\ outFiles = {}
  /\ unflushed = [k \in WsKeys |-> {}]
  /\ cleanup = [j \in JobIds |-> NoCleanup]
  /\ effects = <<>>
  /\ warnings = 0
  /\ imageIn = <<>>
  /\ data = <<>>
  /\ dj = 0
  /\ target \in Targets
  /\ ipc = "main"
  /\ ilog = <<>>
  /\ ifailed = "none"
  /\ exitCode = -1
  /\ ifs \in {{}, {"libwebp"}, {"archive"}, {"libwebp", "archive"}}

InstallNext ==
  \/ InstallStart
  \/ DownloadDone
  \/ RmOldDone
  \/ ExtractDone
  \/ RenameDone
  \/ UnlinkDone
  \/ CatchUnlinkDone

InstallSpec == InstallInit /\ [][InstallNext]_vars

\* ------------------------------------------------------------------ claims
\* A job that one of the five checks of #validateJob is meant to refuse.
InvalidJob(job) ==
  \/ ~job.isObject
  \/ job.input = NoPath
  \/ ~ExistsSync(job.input)
  \/ ~IsFile(job.input)
  \/ ExtName(job.input) # ".webp"

\* No decoder call, no folder created, no output opened or written.
NoSideEffect ==
  /\ effects = <<>>
  /\ outFiles = {}
  /\ \A j \in JobIds : jpc[j] = "idle" /\ stream[j] = "none"

\* C1: when a batch holds a job that fails validation, no job of the batch
\* (the ones before the invalid job included) ever causes a decoder call, a
\* folder creation or an output write, and the call rejects.
C1_FailFastAll ==
  (jobs.shape = "array" /\ \E k \in 1..Len(jobs.list) : InvalidJob(jobs.list[k]))
    => /\ NoSideEffect
       /\ pc # "start" => (pc = "settled" /\ outcome.state = "rejected")

C1_Witness ==
  /\ jobs.shape = "array"
  /\ Len(jobs.list) = 2
  /\ ~InvalidJob(jobs.list[1])
  /\ InvalidJob(jobs.list[2])
  /\ pc = "settled"
  /\ outcome.state = "rejected"

\* C2: once the validation of a convertJobs call has run, a missing jobs
\* argument or a job that is no object, has no input, or whose input does not
\* exist, is no regular file or has not the extension .webp has made the call
\* reject with no side effect; jobs passing all five checks have been accepted
\* (the loop was entered).
C2_ValidationRejects ==
  (pc # "start" /\ jobs.shape # "direct") =>
    IF jobs.shape = "missing" \/ \E k \in 1..Len(jobs.list) : InvalidJob(jobs.list[k])
    THEN pc = "settled" /\ outcome.state = "rejected" /\ idx = 0 /\ NoSideEffect
    ELSE idx >= 1

C2_Witness ==
  /\ jobs.shape = "single"
  /\ jobs.list[1].input = DirIn
  /\ outcome.state = "rejected"
  /\ outcome.error = "NotFile"

\* The output path a job is to be converted to.
ExpectedOutput(job) ==
  IF job.output # NoPath THEN job.output ELSE GenerateOutputPath(job.input)

\* C3: a resolved call on one job object yields that job's output path; on a
\* list of n jobs (n >= 0) it yields a list of n paths, the i-th being the
\* output path of job i; an output path the job supplies is returned unchanged.
C3_ResultsPositional ==
  outcome.state = "resolved" =>
    /\ jobs.shape = "single" =>
         ~outcome.isList /\ outcome.path = ExpectedOutput(jobs.list[1])
    /\ jobs.shape = "array" =>
         /\ outcome.isList
         /\ Len(outcome.list) = Len(jobs.list)
         /\ \A i \in 1..Len(jobs.list) : outcome.list[i] = ExpectedOutput(jobs.list[i])

C3_Witness ==
  /\ outcome.state = "resolved"
  /\ outcome.isList
  /\ Len(outcome.list) = 2
  /\ outcome.list[1] = OutGif
  /\ outcome.list[2] = [dir |-> "imgs", name |-> "static", ext |-> ".png"]

\* C4: at most one job is in flight; a job has started only when every job
\* before it has returned its result; the side effects of the call are
\* ordered by job.
C4_Sequential ==
  /\ Cardinality({j \in JobIds : jpc[j] \in InFlight}) <= 1
  /\ \A j \in JobIds : jpc[j] # "idle" => \A i \in 1..(j - 1) : jpc[i] = "resolved"
  /\ \A a, b \in 1..Len(effects) : a < b => effects[a].job <= effects[b].job

C4_Witness ==
  /\ jpc[1] = "resolved"
  /\ jpc[2] = "load_image"
  /\ \E a \in 1..Len(effects) : effects[a].job = 1

\* C5: when the conversion of job k fails, the call has rejected with that
\* job's error and without any result, no later job has started or had any
\* side effect, and the output of every earlier job is on disk.
C5_AbortOnFailure ==
  \A k \in JobIds : jpc[k] = "rejected" =>
    /\ pc = "settled"
    /\ outcome.state = "rejected"
    /\ outcome.error = jerr[k]
    /\ outcome.path = NoPath
    /\ outcome.list = <<>>
    /\ \A j \in JobIds : j > k =>
         jpc[j] = "idle" /\ \A a \in 1..Len(effects) : effects[a].job # j
    /\ \A j \in 1..(k - 1) : results[j] \in outFiles

C5_Witness ==
  /\ Len(jobs.list) = 2
  /\ jpc[1] = "resolved"
  /\ jpc[2] = "rejected"
  /\ jerr[2] = "AnimDumpError"
  /\ results[1] \in outFiles

\* The conversion of job j, which created its folder, settles in this step.
Completes(j) == jpc[j] \in HasWorkspace /\ jpc'[j] \in Settled

C7_WaitTerminates ==
  (\E j \in JobIds : jpc[j] = "poll_sleep")
    ~> (\A j \in JobIds : jpc[j] \notin {"poll_sleep", "poll_check"})

\* C8: a resolved animated conversion has added exactly as many frames as
\* the metadata lists, the i-th with the delay of the i-th metadata frame.
C8_FramesAndDelays ==
  \A j \in JobIds :
    (jpc[j] = "resolved" /\ ExtName(output[j]) = ".gif") =>
      /\ Len(added[j]) = Len(meta)
      /\ \A i \in 1..Len(meta) : added[j][i] = meta[i]

C8_Witness ==
  \E j \in JobIds :
    /\ jpc[j] = "resolved"
    /\ ExtName(output[j]) = ".gif"
    /\ Len(meta) = 2
    /\ meta[1] # meta[2]
    /\ Len(added[j]) = 2

\* C9: after the alpha loop has passed a pixel, its alpha byte is 0 when the
\* byte read was above 0 and below 128 and is the byte read otherwise; the
\* colour bytes, and every byte of a pixel the loop has not reached, are the
\* bytes read.
C9_AlphaLaw ==
  \A k \in 1..Len(data) :
    IF k % 4 = 0 /\ k <= dj
    THEN data[k] = (IF 0 < imageIn[k] /\ imageIn[k] < 128 THEN 0 ELSE imageIn[k])
    ELSE data[k] = imageIn[k]

C9_Witness ==
  /\ Len(data) = 8
  /\ dj = 8
  /\ imageIn[4] = 127 /\ data[4] = 0
  /\ imageIn[8] = 128 /\ data[8] = 128
  /\ imageIn[1] = 100 /\ data[1] = 100

\* C10: an animated conversion has resolved only after its write stream
\* reported 'finish'.
C10_ResolveAfterStreamFinish ==
  \A j \in JobIds :
    (jpc[j] = "resolved" /\ ExtName(output[j]) = ".gif") => stream[j] = "finished"

\* The error thrown by the step a conversion can fail at while it stands at
\* position p of the pipeline.
OriginalError(p) ==
  CASE p = "anim_dump" -> "AnimDumpError"
    [] p = "poll_check" -> "ENOENT"
    [] p = "load_image" -> "FrameError"
    [] OTHER -> "none"

\* C11: whatever the removal of the folder does, a conversion that fails
\* hands its caller the error of the failed step, a conversion that succeeds
\* hands its caller the output path, and an outcome once delivered is not
\* changed by the removal attempts that follow.
C11_CleanupKeepsOutcome ==
  [][/\ \A j \in JobIds :
          /\ (jpc[j] \in HasWorkspace /\ jpc'[j] = "rejected") =>
               /\ outcome'.state = "rejected"
               /\ outcome'.error = OriginalError(jpc[j])
          /\ (jpc[j] \in HasWorkspace /\ jpc'[j] = "resolved") =>
               IF jobs.shape = "direct"
               THEN outcome'.state = "resolved" /\ outcome'.path = output[j]
               ELSE results' = Append(results, output[j])
     /\ outcome.state # "pending" => outcome' = outcome]_vars

C11_Witness ==
  \E j \in JobIds :
    /\ jpc[j] = "rejected"
    /\ jerr[j] = "FrameError"
    /\ cleanup[j].attempts = maxCleanupAttempts
    /\ JobFolder(j) \in wsExists
    /\ outcome.state = "rejected"
    /\ outcome.error = "FrameError"

\* The value the precedence rule gives key k: the job's value if the job sets
\* k, else the constructor's if the constructor set k, else the hardcoded one.
ByPrecedence(settings, arg, k) ==
  IF k \in DOMAIN settings THEN settings[k]
  ELSE IF k \in DOMAIN arg THEN arg[k]
  ELSE IF k = "quality" THEN 10 ELSE 0

\* C12: the options a conversion works with give quality and transparent the
\* value the precedence rule gives them (job settings, then the constructor's
\* argument, then quality = 10 and transparent = '0x000000'), and that value
\* is a defined one.
C12_SettingsPrecedence ==
  \A j \in JobIds : \A arg \in CtorArgs :
    (options[j] # NoSettings /\ defaultOptions = Construct(arg)) =>
      \A k \in {"quality", "transparent"} :
        /\ k \in DOMAIN options[j]
        /\ options[j][k] = ByPrecedence(jobs.list[j].settings, arg, k)
        /\ options[j][k] # Undefined

\* C13: a job of convertJobs that gives no output path is converted to the
\* path with the input's directory, the input's name without .webp, and the
\* extension .gif when the animation marker is found in the file and .png
\* otherwise; for a file that cannot be read the path ends in .png and the
\* job goes on to the decoder.
C13_InferredOutput ==
  \A j \in JobIds :
    (jobs.shape # "direct" /\ jpc[j] # "idle" /\ jobs.list[j].output = NoPath) =>
      LET in == jobs.list[j].input
      IN /\ output[j].dir = in.dir
         /\ output[j].name = in.name
         /\ output[j].ext = (IF in = AnimIn THEN ".gif" ELSE ".png")
         /\ in = LockedIn =>
              \E a \in 1..Len(effects) : effects[a].job = j /\ effects[a].op = "dwebp"

C13_Witness ==
  /\ jobs.shape = "array"
  /\ Len(jobs.list) = 2
  /\ jobs.list[1].input = AnimIn /\ jobs.list[1].output = NoPath
  /\ jpc[1] = "resolved"
  /\ output[1] = [dir |-> "imgs", name |-> "anim", ext |-> ".gif"]
  /\ jobs.list[2].input = LockedIn
  /\ jpc[2] = "dwebp"
  /\ output[2] = [dir |-> "imgs", name |-> "locked", ext |-> ".png"]

\* The positions in effects of the external decoder calls made for job j.
DecoderCalls(j) ==
  {a \in 1..Len(effects) :
     effects[a].job = j /\ effects[a].op \in {"dwebp", "anim_dump"}}

\* C14: a conversion that has succeeded has called the external decoder
\* exactly once.  To PNG: dwebp with the input and the output path, with no
\* folder created and no frame added to an encoder.  To GIF: anim_dump with
\* the folder of the conversion and the input, and no dwebp call.
C14_OneDecoderCall ==
  \A j \in JobIds :
    jpc[j] = "resolved" =>
      /\ Cardinality(DecoderCalls(j)) = 1
      /\ IF ExtName(output[j]) = ".png"
         THEN /\ \A a \in DecoderCalls(j) :
                   /\ effects[a].op = "dwebp"
                   /\ effects[a].args = <<jobs.list[j].input, "-o", output[j]>>
              /\ \A a \in 1..Len(effects) :
                   effects[a].job = j => effects[a].op \notin {"mkdir", "addFrame"}
              /\ added[j] = <<>>
         ELSE \A a \in DecoderCalls(j) :
                /\ effects[a].op = "anim_dump"
                /\ effects[a].args =
                     <<"-folder", BaseName(jobs.list[j].input), jobs.list[j].input>>

C14_Witness ==
  /\ jpc[1] = "resolved" /\ ExtName(output[1]) = ".png"
  /\ jpc[2] = "resolved" /\ ExtName(output[2]) = ".gif"
  /\ Cardinality(DecoderCalls(1)) = 1
  /\ Cardinality(DecoderCalls(2)) = 1

\* C15: a job or a direct call whose settings carry a key other than quality
\* and transparent is rejected once it is taken up, with no decoder call made
\* and no encoder, stream or folder created for it.
C15_UnknownKeyRejected ==
  \A j \in JobIds :
    (j <= Len(jobs.list) /\ jpc[j] # "idle"
       /\ \E k \in DOMAIN jobs.list[j].settings : k \notin {"quality", "transparent"}) =>
      /\ jpc[j] = "rejected"
      /\ stream[j] = "none"
      /\ \A a \in 1..Len(effects) : effects[a].job # j

\* A job that names an output path whose extension is neither .gif nor .png.
BadOutputJob(job) ==
  job.isObject /\ job.output # NoPath /\ ExtName(job.output) \notin {".gif", ".png"}

\* C16: a convertJobs call holding a job whose output extension is neither
\* .gif nor .png never makes a decoder call, creates a folder, opens a stream
\* or writes an output for any of its jobs, and once the job has been refused
\* the call has rejected.
C16_BadOutputBlocksBatch ==
  (jobs.shape \in {"single", "array"}
     /\ \E k \in 1..Len(jobs.list) : BadOutputJob(jobs.list[k])) =>
    /\ effects = <<>>
    /\ outFiles = {}
    /\ \A j \in JobIds : stream[j] = "none"
    /\ \A j \in JobIds : jpc[j] \in {"idle", "rejected"}

\* C17: from the moment dwebp has been started for a conversion, or its write
\* stream has been created, the directory of its output path exists, and no
\* write stream ever fails to open its file.
C17_OutputDirCreated ==
  /\ \A j \in JobIds :
       (jpc[j] = "dwebp" \/ stream[j] # "none") => output[j].dir \in dirs
  /\ pc # "crashed"

\* C18: two conversions of the same input to GIF with the same settings that
\* both succeed have added the same number of frames to their encoders, with
\* the same delays in the same order, and have made the same number of
\* addFrame calls.
C18_SameFramesAndDelays ==
  \A i, j \in JobIds :
    (/\ jpc[i] = "resolved" /\ jpc[j] = "resolved"
     /\ ExtName(output[i]) = ".gif" /\ ExtName(output[j]) = ".gif"
     /\ jobs.list[i].input = jobs.list[j].input
     /\ jobs.list[i].settings = jobs.list[j].settings) =>
      /\ added[i] = added[j]
      /\ Cardinality({a \in 1..Len(effects) :
                        effects[a].job = i /\ effects[a].op = "addFrame"})
           = Cardinality({a \in 1..Len(effects) :
                            effects[a].job = j /\ effects[a].op = "addFrame"})

C18_Witness ==
  /\ jpc[1] = "resolved" /\ jpc[2] = "resolved"
  /\ jobs.list[1].input = AnimIn /\ jobs.list[2].input = AnimIn
  /\ ExtName(output[1]) = ".gif" /\ ExtName(output[2]) = ".gif"
  /\ Len(added[1]) = 2
  /\ added[1] = added[2]
  /\ added[1][1] # added[1][2]

\* C19: two conversions of one input to one .png output, whatever quality
\* and transparent each was given, have called dwebp with the same arguments,
\* and when both have succeeded they have returned the same result.
C19_PngIgnoresOptions ==
  \A i, j \in JobIds :
    (/\ i <= Len(jobs.list) /\ j <= Len(jobs.list)
     /\ jpc[i] # "idle" /\ jpc[j] # "idle"
     /\ jobs.list[i].input = jobs.list[j].input
     /\ output[i] = output[j]
     /\ ExtName(output[i]) = ".png") =>
      /\ \A a \in DecoderCalls(i) : \A b \in DecoderCalls(j) :
           effects[a].op = effects[b].op /\ effects[a].args = effects[b].args
      /\ (i \in DOMAIN results /\ j \in DOMAIN results) => results[i] = results[j]

C19_Witness ==
  /\ jpc[1] = "resolved" /\ jpc[2] = "resolved"
  /\ ExtName(output[1]) = ".png"
  /\ output[1] = output[2]
  /\ options[1]["quality"] # options[2]["quality"]
  /\ options[1]["transparent"] # options[2]["transparent"]
  /\ results[1] = results[2]
  /\ DecoderCalls(1) # {} /\ DecoderCalls(2) # {}

\* The error of the first of the six argument conditions, in their order,
\* that a direct call meets, or "ok".
FirstFailing(in, o) ==
  CASE in = NoPath -> "InputRequired"
    [] in # NoPath /\ o = NoPath -> "OutputRequired"
    [] in = GoneIn /\ o # NoPath -> "NotExist"
    [] in = DirIn /\ o # NoPath -> "NotFile"
    [] in = OtherIn /\ o # NoPath -> "NotWebp"
    [] in \in {AnimIn, StaticIn, LockedIn} /\ o = OutTxt -> "BadOutputExt"
    [] OTHER -> "ok"

\* C20: a direct call convert(input, output, options) that has passed its
\* argument checks with a missing input, a missing output, an input that does
\* not exist, is no regular file or has not the extension .webp, or an
\* output extension other than .gif and .png, has rejected with the error of
\* the first of these conditions, in this order, and has made no decoder
\* call, created no folder and opened or written no output; a call meeting
\* none of them is not refused by the checks.
C20_DirectCallChecks ==
  (jobs.shape = "direct" /\ jpc[1] # "idle") =>
    LET expected == FirstFailing(jobs.list[1].input, jobs.list[1].output)
    IN IF expected # "ok"
       THEN /\ jpc[1] = "rejected"
            /\ outcome.state = "rejected"
            /\ outcome.error = expected
            /\ effects = <<>>
            /\ outFiles = {}
            /\ stream[1] = "none"
       ELSE jerr[1] \notin {"InputRequired", "OutputRequired", "NotExist",
                            "NotFile", "NotWebp", "BadOutputExt"}

C20_Witness ==
  /\ jobs.shape = "direct"
  /\ jobs.list[1].input = GoneIn
  /\ jobs.list[1].output = OutTxt
  /\ outcome.state = "rejected"
  /\ outcome.error = "NotExist"
  /\ effects = <<>>

\* Positions of a conversion between the creation of its folder and the end
\* of its frame loop.
Owning == {"anim_dump", "poll_check", "poll_sleep", "load_image"}

\* C21: the folder of a conversion is touched by that conversion alone: no
\* step that leaves the conversion between the creation of its folder and
\* the end of its frame loop (so no step of its own failure path, but any
\* step of another job such as a deferred cleanup retry) removes that folder.
C21_WorkspaceExclusive ==
  [][\A j \in JobIds :
       (jpc[j] \in Owning /\ jpc'[j] \in Owning) =>
         JobFolder(j) \in wsExists']_vars

\* C22: two jobs with different input paths are never given the same folder:
\* any two mkdirSync calls made for different inputs name different folders.
C22_UniqueWorkspaceKey ==
  \A a, b \in 1..Len(effects) :
    (/\ effects[a].op = "mkdir"
     /\ effects[b].op = "mkdir"
     /\ jobs.list[effects[a].job].input # jobs.list[effects[b].job].input)
    => effects[a].args # effects[b].args

\* C23: when anim_dump is invoked, the folder of the conversion exists and
\* holds no entry, whatever an earlier run left in it.
C23_FreshWorkspace ==
  [][\A j \in JobIds :
       (jpc[j] = "img_load" /\ jpc'[j] = "anim_dump") =>
         (JobFolder(j) \in wsExists' /\ wsFiles'[JobFolder(j)] = {})]_vars

\* The calls job j has made on its encoder, in order.
EncoderOps == {"start", "setRepeat", "setTransparent", "setQuality",
               "setDelay", "addFrame", "finish"}
EncoderCalls(j) ==
  SelectSeq(effects, LAMBDA e : e.job = j /\ e.op \in EncoderOps)
OpsOf(j, op) == SelectSeq(effects, LAMBDA e : e.job = j /\ e.op = op)

\* C24: the folder of a conversion is released last.  cleanupFolder is first
\* called either in the step that ends the grace delay of a conversion that
\* has made its folder, added every listed frame and finished its encoder,
\* or in the step in which a conversion that has made its folder throws;
\* and no conversion that has made its folder settles, with its result or
\* with an error, without cleanupFolder having been called.
C24_ReleaseLast ==
  [][\A j \in JobIds :
       /\ (cleanup[j].calls = 0 /\ cleanup'[j].calls > 0) =>
            /\ Len(OpsOf(j, "mkdir")) = 1
            /\ \/ /\ jpc[j] = "grace"
                  /\ jpc'[j] = "resolved"
                  /\ Len(OpsOf(j, "addFrame")) = Len(frames[j])
                  /\ Len(OpsOf(j, "finish")) = 1
               \/ /\ jpc[j] \in Owning
                  /\ jpc'[j] = "rejected"
       /\ (jpc[j] \in HasWorkspace /\ jpc'[j] \in Settled) =>
            cleanup'[j].calls = 1]_vars

C24_Witness ==
  \E j \in JobIds :
    /\ jpc[j] = "resolved"
    /\ cleanup[j].calls = 1
    /\ Len(meta) >= 2
    /\ Len(OpsOf(j, "addFrame")) = Len(meta)

\* C25: the removal of a folder is retried a bounded number of times: one
\* conversion runs rmSync at most maxCleanupAttempts times, at most once in
\* a step, every run after the first in a step of the timer the failure
\* before it has set, none after a run that succeeded, and the failure that
\* brings the count to maxCleanupAttempts sets no timer.
C25_BoundedRetry ==
  [][\A j \in JobIds :
       /\ cleanup'[j].rms <= maxCleanupAttempts
       /\ cleanup'[j].calls <= maxCleanupAttempts
       /\ cleanup'[j].attempts = maxCleanupAttempts => ~cleanup'[j].scheduled
       /\ cleanup'[j].rms > cleanup[j].rms =>
            /\ cleanup'[j].rms = cleanup[j].rms + 1
            /\ cleanup[j].rms > 0 => cleanup[j].scheduled
       /\ cleanup[j].rms > cleanup[j].attempts =>
            /\ ~cleanup[j].scheduled
            /\ cleanup'[j].rms = cleanup[j].rms]_vars

C25_Witness ==
  \E j \in JobIds :
    /\ cleanup[j].attempts = maxCleanupAttempts
    /\ cleanup[j].rms = maxCleanupAttempts
    /\ ~cleanup[j].scheduled
    /\ JobFolder(j) \in wsExists

\* C26: a conversion whose anim_dump process has failed has rejected with
\* the error of the process, without having listed the folder and without
\* having added a frame to its encoder.
C26_DecoderErrorRejects ==
  \A j \in JobIds :
    jerr[j] = "AnimDumpError" =>
      /\ jpc[j] = "rejected"
      /\ outcome.state = "rejected"
      /\ outcome.error = "AnimDumpError"
      /\ frames[j] = <<>>
      /\ added[j] = <<>>
      /\ Len(OpsOf(j, "addFrame")) = 0

C26_Witness ==
  \E j \in JobIds :
    /\ jerr[j] = "AnimDumpError"
    /\ jpc[j] = "rejected"
    /\ Len(OpsOf(j, "mkdir")) = 1
    /\ cleanup[j].calls >= 1

\* C27: the wait for the frames ends, and the frame loop starts, only on a
\* folder that holds exactly as many entries as the metadata lists frames.
C27_WaitEndsOnExactCount ==
  [][\A j \in JobIds :
       (jpc[j] = "poll_check" /\ jpc'[j] \in {"load_image", "grace"}) =>
         /\ Cardinality(wsFiles[JobFolder(j)]) = Len(meta)
         /\ Len(frames'[j]) = Len(meta)]_vars

C27_Witness ==
  \E j \in JobIds :
    /\ jpc[j] = "load_image"
    /\ Len(meta) >= 2
    /\ Len(frames[j]) = Len(meta)
    /\ fi[j] = 0

\* C28: a conversion that finds more files in its folder than the metadata
\* lists frames still completes: waiting on such a folder, it eventually
\* resolves.
C28_ExtraFilesStillComplete ==
  \A j \in JobIds :
    (/\ jpc[j] = "poll_sleep"
     /\ JobFolder(j) \in wsExists
     /\ Cardinality(wsFiles[JobFolder(j)]) > Len(meta))
    ~> (jpc[j] = "resolved")

C30_EncoderProtocol ==
  \A j \in JobIds :
    LET c == EncoderCalls(j)
    IN c # <<>> =>
         /\ Len(c) >= 4
         /\ c[1].op = "start"
         /\ c[2].op = "setRepeat" /\ c[2].args = <<AnimLoops(meta)>>
         /\ c[3].op = "setTransparent"
         /\ c[3].args = <<options[j]["transparent"]>>
         /\ c[4].op = "setQuality" /\ c[4].args = <<options[j]["quality"]>>
         /\ \A k \in 5..Len(c) :
              /\ c[k].op \in {"setDelay", "addFrame", "finish"}
              /\ c[k].op = "addFrame" => c[k - 1].op = "setDelay"
              /\ c[k].op = "setDelay" => (k < Len(c) /\ c[k + 1].op = "addFrame")
              /\ c[k].op = "finish" =>
                   /\ k = Len(c)
                   /\ Len(OpsOf(j, "addFrame")) = Len(frames[j])
         /\ jpc[j] = "resolved" => c[Len(c)].op = "finish"

C30_Witness ==
  \E j \in JobIds :
    /\ jpc[j] = "resolved"
    /\ Len(meta) >= 2
    /\ Len(EncoderCalls(j)) = 4 + 2 * Len(meta) + 1
    /\ EncoderCalls(j)[2].args = <<1>>

\* The quality in effect for job j: that of its settings when they carry
\* one, else that of the converter's defaults.
EffectiveQuality(j) ==
  IF "quality" \in DOMAIN jobs.list[j].settings
  THEN jobs.list[j].settings["quality"]
  ELSE defaultOptions["quality"]

C32_SettingsCopied ==
  [][/\ jobs' = jobs
     /\ defaultOptions' = defaultOptions
     /\ \E arg \in CtorArgs : defaultOptions' = Spread(HardDefaults, arg)
     /\ \A j \in JobIds :
          options'[j] # options[j] =>
            \A k \in {"quality", "transparent"} :
              options'[j][k] =
                IF k \in DOMAIN jobs.list[j].settings
                THEN jobs.list[j].settings[k]
                ELSE defaultOptions[k]]_vars

C32_Witness ==
  /\ jobs.shape = "array"
  /\ Len(jobs.list) = 2
  /\ jobs.list[1].settings = [quality |-> 80]
  /\ jobs.list[2].settings = NoSettings
  /\ jpc[1] = "resolved"
  /\ jpc[2] = "resolved"
  /\ options[1]["quality"] = 80
  /\ options[2]["quality"] = defaultOptions["quality"]
  /\ defaultOptions["quality"] # 80

\* C33: a conversion to .gif of a .webp file that holds no animation rejects
\* with an error once the image is loaded, and has then made no folder,
\* called no anim_dump and opened no output.
C33_StillToGifRejects ==
  \A j \in JobIds :
    (/\ jpc[j] \notin {"idle", "img_load"}
     /\ ExtName(output[j]) = ".gif"
     /\ ExtName(jobs.list[j].input) = ".webp"
     /\ Readable(jobs.list[j].input)
     /\ ~HasAnimMarker(jobs.list[j].input)) =>
      /\ jpc[j] = "rejected"
      /\ jerr[j] = "NotAnimated"
      /\ outcome.state = "rejected"
      /\ outcome.error = "NotAnimated"
      /\ stream[j] = "none"
      /\ cleanup[j].calls = 0
      /\ \A a \in 1..Len(effects) :
           effects[a].job = j => effects[a].op \notin {"open", "mkdir", "anim_dump"}

C33_Witness ==
  \E j \in JobIds :
    /\ jpc[j] = "rejected"
    /\ jerr[j] = "NotAnimated"
    /\ jobs.list[j].input = StaticIn
    /\ output[j] = OutGif

\* C34: the deprecation warning is printed exactly once for a call of
\* convert by the user, in the step that enters convert and so before any
\* of its checks, and never for a conversion started by convertJobs.
C34_WarnOncePerDirectCall ==
  /\ jobs.shape # "direct" => warnings = 0
  /\ jobs.shape = "direct" =>
       /\ warnings = (IF pc = "start" THEN 0 ELSE 1)
       /\ jpc[1] # "idle" => warnings = 1

C34_Witness ==
  /\ jobs.shape = "direct"
  /\ jpc[1] = "rejected"
  /\ jerr[1] = "InputRequired"
  /\ warnings = 1

\* C35: a conversion that has made its folder starts cleanupFolder itself
\* exactly once: in the step in which it settles, with its result or with
\* an error, cleanupFolder is called for the first time and once; every
\* other call is made by the timer of a failed call; and cleanupAttempts
\* never decreases and never exceeds maxCleanupAttempts.
C35_CleanupStartedOnce ==
  [][\A j \in JobIds :
       /\ cleanup'[j].attempts >= cleanup[j].attempts
       /\ cleanup'[j].attempts <= maxCleanupAttempts
       /\ (jpc[j] \in HasWorkspace /\ jpc'[j] \in Settled) =>
            (cleanup[j].calls = 0 /\ cleanup'[j].calls = 1)
       /\ (cleanup'[j].calls # cleanup[j].calls /\ jpc'[j] = jpc[j]) =>
            /\ jpc[j] \in Settled
            /\ cleanup[j].scheduled
            /\ cleanup'[j].calls = cleanup[j].calls + 1]_vars

C35_Witness ==
  \E j \in JobIds :
    /\ jpc[j] = "rejected"
    /\ jerr[j] = "FrameError"
    /\ cleanup[j].calls = 2
    /\ cleanup[j].attempts = 2

\* C36: an animated conversion opens its output before it makes its folder
\* and before it calls anim_dump: every mkdirSync and anim_dump call of a
\* job comes after the createWriteStream and encoder.start of that job; and
\* a conversion that fails in anim_dump, in the wait for the frames or in
\* the frame loop fails with its output opened and not ended and its
\* encoder started and not finished.
C36_OutputOpenedFirst ==
  [][\A j \in JobIds :
       /\ \A a \in 1..Len(effects) :
            (effects[a].job = j /\ effects[a].op \in {"mkdir", "anim_dump"}) =>
              /\ \E b \in 1..(a - 1) : effects[b].job = j /\ effects[b].op = "open"
              /\ \E b \in 1..(a - 1) : effects[b].job = j /\ effects[b].op = "start"
       /\ (jpc[j] \in Owning /\ jpc'[j] = "rejected") =>
            /\ Len(OpsOf(j, "open")) = 1
            /\ Len(OpsOf(j, "start")) = 1
            /\ Len(OpsOf(j, "finish")) = 0
            /\ effects' = effects
            /\ stream[j] = "open"
            /\ stream'[j] = "open"]_vars

C36_Witness ==
  \E j \in JobIds :
    /\ jpc[j] = "rejected"
    /\ jerr[j] = "ENOENT"
    /\ stream[j] = "open"
    /\ Len(OpsOf(j, "open")) = 1
    /\ Len(OpsOf(j, "finish")) = 0

\* The steps of the installer, in the order of its description.
InstallOrder == <<"download", "rm_old", "extract", "rename", "unlink">>
\* The position of a step in that order.
StepIndex(step) == CHOOSE n \in 1..Len(InstallOrder) : InstallOrder[n] = step
\* The platform-arch pairs the installer has an archive for.
SupportedTargets ==
  {[platform |-> "linux", arch |-> "x64"], [platform |-> "linux", arch |-> "arm64"],
   [platform |-> "darwin", arch |-> "x64"], [platform |-> "darwin", arch |-> "arm64"],
   [platform |-> "win32", arch |-> "x64"]}

\* C37: the installer starts its steps in the order download, remove the old
\* libwebp folder, extract, rename, delete the archive.  Once a step has
\* failed no later step is started, only the deletion of the archive is
\* tried, and the process exits with status 1; it exits with status 0 only
\* after all five steps, none failed; on a machine it has no archive for it
\* exits with status 1 without having started any step.
C37_InstallerOrder ==
  /\ ifailed = "none" =>
       \E n \in 0..Len(InstallOrder) : ilog = SubSeq(InstallOrder, 1, n)
  /\ ifailed # "none" =>
       /\ ilog = SubSeq(InstallOrder, 1, StepIndex(ifailed)) \o <<"unlink">>
       /\ ipc \in {"catch_unlink", "exited"}
       /\ exitCode \in {-1, 1}
  /\ ipc = "exited" =>
       /\ exitCode \in {0, 1}
       /\ exitCode = 0 <=> (ifailed = "none" /\ ilog = InstallOrder)
       /\ exitCode = 0 => ("libwebp" \in ifs /\ "archive" \notin ifs)
  /\ (target \notin SupportedTargets /\ ipc # "idle") =>
       /\ ilog = <<>>
       /\ ipc = "exited" => exitCode = 1
       /\ ipc \in {"main", "exited"}

C37_Witness ==
  /\ ipc = "exited"
  /\ exitCode = 1
  /\ ifailed = "extract"
  /\ ilog = <<"download", "rm_old", "extract", "unlink">>

====
